---- MODULE Spec2Model ----
(***************************************************************************)
(* Model of the two checkpoint converters of the repository:               *)
(*   src/orbax_to_rtneural.py    main / convert_to_rtneural /              *)
(*                               extract_layer_params                      *)
(*   src/convert_to_rtneural.py  convert_policy                            *)
(*                                                                         *)
(* A Python value is a tagged record: Num, List, NdArray (an object with a *)
(* tolist method), Dict (a mapping from string keys to values) and None.   *)
(* One behaviour is one run of one of the two programs on one input.       *)
(***************************************************************************)
EXTENDS Integers, Sequences, FiniteSets, TLC

VARIABLES prog, path_kind, load_ok, input_tree, backup, activation,
          pc, err, source, normalizer_data, model_data, policy_params,
          normalizer, layer_dict, i, layers, rtneural, out_file

vars == <<prog, path_kind, load_ok, input_tree, backup, activation,
          pc, err, source, normalizer_data, model_data, policy_params,
          normalizer, layer_dict, i, layers, rtneural, out_file>>

inputs == <<prog, path_kind, load_ok, input_tree, backup, activation>>

(***************************************************************************)
(* Python values                                                           *)
(***************************************************************************)
None == [type |-> "none"]
Num(n) == [type |-> "num", val |-> n]
List(s) == [type |-> "list", items |-> s]
NdArray(s) == [type |-> "ndarray", items |-> s]
Dict(f) == [type |-> "dict", map |-> f]
EmptyMap == <<>>

IsDict(v) == v.type = "dict"
IsList(v) == v.type = "list"

\* k in v  (a mapping: key membership; a list whose elements are never strings: False)
KeyIn(k, v) == IsDict(v) /\ k \in DOMAIN v.map
\* `k in v` raises TypeError on a number or None
KeyInRaises(v) == v.type \in {"num", "none"}

Ok(v) == [ok |-> TRUE, val |-> v, err |-> ""]
Raise(e) == [ok |-> FALSE, val |-> None, err |-> e]

\* v[k] for a string key k
Subscript(v, k) ==
    IF IsDict(v)
    THEN IF k \in DOMAIN v.map THEN Ok(v.map[k]) ELSE Raise("KeyError")
    ELSE Raise("TypeError")

\* hasattr(v, 'tolist') and v.tolist()
HasToList(v) == v.type = "ndarray"
ToList(v) == List(v.items)
Coerce(v) == IF HasToList(v) THEN ToList(v) ELSE v

\* len(v)
HasLen(v) == v.type \in {"list", "ndarray", "dict"}
PyLen(v) == IF IsDict(v) THEN Cardinality(DOMAIN v.map) ELSE Len(v.items)

\* bool(v) of a list or a number
Truthy(v) == IF v.type = "list" THEN Len(v.items) > 0
             ELSE IF v.type = "num" THEN v.val # 0
             ELSE IF v.type = "dict" THEN DOMAIN v.map # {}
             ELSE FALSE

\* json.dump accepts numbers, lists, mappings and None, and raises TypeError on
\* an array object anywhere in the document
RECURSIVE Serializable(_)
Serializable(v) ==
    CASE v.type = "num" -> TRUE
      [] v.type = "none" -> TRUE
      [] v.type = "ndarray" -> FALSE
      [] v.type = "list" -> \A n \in 1..Len(v.items) : Serializable(v.items[n])
      [] v.type = "dict" -> \A k \in DOMAIN v.map : Serializable(v.map[k])

(***************************************************************************)
(* extract_layer_params                                                    *)
(***************************************************************************)
HiddenNames == <<"hidden_0", "hidden_1", "hidden_2", "hidden_3", "hidden_4", "hidden_5", "hidden_6">>
NumericNames == <<"0", "1", "2", "3", "4", "5", "6">>
DenseNames == <<"Dense_0", "Dense_1", "Dense_2", "Dense_3", "Dense_4", "Dense_5", "Dense_6">>

\* f'hidden_{n}', str(n), f'Dense_{n}'
hidden_(n) == HiddenNames[n + 1]
str(n) == NumericNames[n + 1]
Dense_(n) == DenseNames[n + 1]

\* lines 55-60: the mapping that holds the layers
NavigateRaises(params) ==
    \/ KeyInRaises(params)
    \/ KeyIn("params", params) /\ KeyInRaises(params.map["params"])

NavigateParams(params) ==
    IF KeyIn("params", params) /\ KeyIn("params", params.map["params"])
    THEN params.map["params"].map["params"]
    ELSE IF KeyIn("params", params)
    THEN params.map["params"]
    ELSE params

\* lines 66-70: the loop leaves at index n
MutProbeBreaksIgnoresDense(ld, n) ==
    /\ ~KeyIn(hidden_(n), ld)
    /\ ~KeyIn(str(n), ld)

ProbeBreaks(ld, n) ==
    /\ ~KeyIn(hidden_(n), ld)
    /\ ~KeyIn(str(n), ld) /\ ~KeyIn(Dense_(n), ld)

\* lines 66-71: the key used for index n
MutLayerNameDenseFirst(ld, n) ==
    IF KeyIn(hidden_(n), ld) THEN hidden_(n)
    ELSE IF KeyIn(Dense_(n), ld) THEN Dense_(n) ELSE str(n)

LayerName(ld, n) ==
    IF KeyIn(hidden_(n), ld) THEN hidden_(n)
    ELSE IF KeyIn(str(n), ld) THEN str(n) ELSE Dense_(n)

\* lines 73-86: the entry appended for index n, or the exception raised
ExtractLayer(ld, n) ==
    LET layer_params == ld.map[LayerName(ld, n)]
        kernel == Subscript(layer_params, "kernel")
        bias == Subscript(layer_params, "bias")
    IN  IF ~kernel.ok THEN Raise(kernel.err)
        ELSE IF ~bias.ok THEN Raise(bias.err)
        ELSE Ok([kernel |-> Coerce(kernel.val), bias |-> Coerce(bias.val)])

(***************************************************************************)
(* convert_to_rtneural                                                     *)
(***************************************************************************)
observation_size == 720
observation_history == 20
kp == "7.5"
kd == "0.25"
action_scale == "0.5"
default_activation == "elu"
default_joint_pos ==
    <<"0.26", "0.0", "-0.52", "-0.26", "0.0", "0.52",
      "0.26", "0.0", "-0.52", "-0.26", "0.0", "0.52">>
joint_upper_limits ==
    <<"0.8", "1.2", "0.0", "0.0", "1.2", "1.2",
      "0.8", "1.2", "0.0", "0.0", "1.2", "1.2">>
joint_lower_limits ==
    <<"-0.0", "-1.2", "-1.2", "-0.8", "-1.2", "-0.0",
      "-0.0", "-1.2", "-1.2", "-0.8", "-1.2", "-0.0">>

\* lines 132-141: [ok, normalizer_data, model_data] or the exception
MutResolveListSwapped(src) ==
    IF IsList(src)
    THEN IF Len(src.items) >= 2
         THEN [ok |-> TRUE, err |-> "", normalizer_data |-> src.items[2],
               model_data |-> src.items[1]]
         ELSE [ok |-> FALSE, err |-> "ValueError", normalizer_data |-> None,
               model_data |-> None]
    ELSE IF IsDict(src)
    THEN [ok |-> TRUE, err |-> "",
          normalizer_data |-> IF "normalizer" \in DOMAIN src.map
                              THEN src.map["normalizer"] ELSE Dict(EmptyMap),
          model_data |-> src]
    ELSE [ok |-> FALSE, err |-> "AttributeError", normalizer_data |-> None,
          model_data |-> None]

MutResolveShortList(src) ==
    IF IsList(src) /\ Len(src.items) >= 2
    THEN [ok |-> TRUE, err |-> "", normalizer_data |-> src.items[1],
          model_data |-> src.items[2]]
    ELSE IF IsDict(src)
    THEN [ok |-> TRUE, err |-> "",
          normalizer_data |-> IF "normalizer" \in DOMAIN src.map
                              THEN src.map["normalizer"] ELSE Dict(EmptyMap),
          model_data |-> src]
    ELSE [ok |-> TRUE, err |-> "", normalizer_data |-> Dict(EmptyMap),
          model_data |-> src]

ResolveSource(src) ==
    IF IsList(src)
    THEN IF Len(src.items) >= 2
         THEN [ok |-> TRUE, err |-> "", normalizer_data |-> src.items[1],
               model_data |-> src.items[2]]
         ELSE [ok |-> FALSE, err |-> "ValueError", normalizer_data |-> None,
               model_data |-> None]
    ELSE IF IsDict(src)
    THEN [ok |-> TRUE, err |-> "",
          normalizer_data |-> IF "normalizer" \in DOMAIN src.map
                              THEN src.map["normalizer"] ELSE Dict(EmptyMap),
          model_data |-> src]
    ELSE [ok |-> FALSE, err |-> "AttributeError", normalizer_data |-> None,
          model_data |-> None]

\* lines 144-147
PolicyParams(md) ==
    IF IsDict(md) /\ "policy" \in DOMAIN md.map THEN md.map["policy"] ELSE md

\* lines 150-157
MutNormalizerPassThrough(nd) ==
    IF IsDict(nd) THEN Dict([k \in DOMAIN nd.map |-> Coerce(nd.map[k])]) ELSE Dict(EmptyMap)

MutNormalizerMeanOnly(nd) ==
    IF IsDict(nd)
    THEN Dict([k \in DOMAIN nd.map \cap {"mean"} |-> Coerce(nd.map[k])])
    ELSE Dict(EmptyMap)

ExtractNormalizer(nd) ==
    IF IsDict(nd)
    THEN Dict([k \in DOMAIN nd.map \cap {"mean", "std"} |-> Coerce(nd.map[k])])
    ELSE Dict(EmptyMap)

\* lines 165-177
Header(norm) ==
    [in_shape |-> <<1, observation_size>>,
     observation_history |-> observation_history,
     kp |-> kp, kd |-> kd, action_scale |-> action_scale, use_imu |-> TRUE,
     default_joint_pos |-> default_joint_pos,
     joint_upper_limits |-> joint_upper_limits,
     joint_lower_limits |-> joint_lower_limits,
     normalizer |-> norm,
     layers |-> <<>>]

\* line 184: len(kernel)
InFeaturesRaises(layer) == ~HasLen(layer.kernel)

\* line 185: len(kernel[0]) if kernel else len(bias)
OutFeaturesRaises(layer) ==
    IF Truthy(layer.kernel)
    THEN IsDict(layer.kernel) \/ ~HasLen(layer.kernel.items[1])
    ELSE ~HasLen(layer.bias)

MutOutFeaturesRowWidth(layer) ==
    IF Truthy(layer.kernel) THEN PyLen(layer.kernel.items[1]) ELSE 0

OutFeatures(layer) ==
    IF Truthy(layer.kernel) THEN PyLen(layer.kernel.items[1]) ELSE PyLen(layer.bias)

\* lines 188-189
MutActivationAll(n, count, act) == act

LayerActivation(n, count, act) == IF n = count - 1 THEN "" ELSE act

\* lines 191-196: the record of layer n (0-based) of `ls`
LayerRecord(ls, n, act) ==
    LET layer == ls[n + 1]
    IN  [type |-> "dense",
         shape |-> <<PyLen(layer.kernel), OutFeatures(layer)>>,
         activation |-> LayerActivation(n, Len(ls), act),
         weights |-> <<layer.kernel, layer.bias>>]

(***************************************************************************)
(* convert_policy (src/convert_to_rtneural.py)                             *)
(***************************************************************************)
policy_observation_size == 720
policy_observation_history == 20
layer_names == <<"hidden_0", "hidden_1", "hidden_2", "hidden_3", "hidden_4">>

\* line 15: 'layers' in data and 'in_shape' in data
AlreadyRTNeural(data) == KeyIn("layers", data) /\ KeyIn("in_shape", data)

\* line 29: data['policy']['params']['params']
PolicyNetParams(data) ==
    LET a == Subscript(data, "policy")
        b == IF a.ok THEN Subscript(a.val, "params") ELSE a
    IN  IF b.ok THEN Subscript(b.val, "params") ELSE b

\* line 30: data.get('normalizer', {})
PolicyNormalizer(data) ==
    IF "normalizer" \in DOMAIN data.map THEN data.map["normalizer"] ELSE Dict(EmptyMap)

\* lines 33-56
PolicyHeader(norm) ==
    [in_shape |-> <<1, policy_observation_size>>,
     observation_history |-> policy_observation_history,
     kp |-> "7.5", kd |-> "0.25", action_scale |-> "0.5", use_imu |-> TRUE,
     default_joint_pos |->
        <<"0.26", "0.0", "-0.52", "-0.26", "0.0", "0.52",
          "0.26", "0.0", "-0.52", "-0.26", "0.0", "0.52">>,
     joint_upper_limits |->
        <<"0.8", "1.2", "0.0", "0.0", "1.2", "1.2",
          "0.8", "1.2", "0.0", "0.0", "1.2", "1.2">>,
     joint_lower_limits |->
        <<"-0.0", "-1.2", "-1.2", "-0.8", "-1.2", "-0.0",
          "-0.0", "-1.2", "-1.2", "-0.8", "-1.2", "-0.0">>,
     normalizer |-> norm,
     layers |-> <<>>]

\* lines 62-76: the record of layer n (0-based), or the exception raised
PolicyLayerRecord(params, n) ==
    LET layer_params == Subscript(params, layer_names[n + 1])
        kernel == IF layer_params.ok THEN Subscript(layer_params.val, "kernel")
                  ELSE layer_params
        bias == IF kernel.ok THEN Subscript(layer_params.val, "bias") ELSE kernel
    IN  IF ~bias.ok THEN Raise(bias.err)
        ELSE IF ~HasLen(kernel.val) \/ IsDict(kernel.val) THEN Raise("TypeError")
        ELSE IF Len(kernel.val.items) = 0 THEN Raise("IndexError")
        ELSE IF ~HasLen(kernel.val.items[1]) THEN Raise("TypeError")
        ELSE Ok([type |-> "dense",
                 activation |-> IF n = Len(layer_names) - 1 THEN "" ELSE "elu",
                 shape |-> <<PyLen(kernel.val), PyLen(kernel.val.items[1])>>,
                 weights |-> <<kernel.val, bias.val>>])

\* lines 29-78 as one computation: the document convert_policy builds from
\* `data`, or the exception it raises
RECURSIVE PolicyLayersFrom(_, _)
PolicyLayersFrom(params, n) ==
    IF n = Len(layer_names) THEN Ok(<<>>)
    ELSE LET r == PolicyLayerRecord(params, n)
             rest == PolicyLayersFrom(params, n + 1)
         IN  IF ~r.ok THEN r
             ELSE IF ~rest.ok THEN rest
             ELSE Ok(<<r.val>> \o rest.val)

PolicyDocument(data) ==
    LET params == PolicyNetParams(data)
        ls == IF params.ok THEN PolicyLayersFrom(params.val, 0) ELSE params
    IN  IF ~ls.ok THEN ls
        ELSE Ok([PolicyHeader(PolicyNormalizer(data)) EXCEPT !.layers = ls.val])

\* lines 89-90: len(normalizer.get('mean', [])), len(normalizer.get('std', []))
ReportRaises(norm) ==
    \/ ~IsDict(norm)
    \/ \E k \in DOMAIN norm.map \cap {"mean", "std"} : ~HasLen(norm.map[k])

\* orbax_to_rtneural.py lines 236-237: len(rtneural['normalizer']['mean']) when
\* the mean is truthy
MainReportRaises(doc) ==
    /\ "mean" \in DOMAIN doc.normalizer.map
    /\ Truthy(doc.normalizer.map["mean"])
    /\ ~HasLen(doc.normalizer.map["mean"])

(***************************************************************************)
(* The runs                                                                *)
(***************************************************************************)
Fail(e) ==
    /\ pc' = "failed"
    /\ err' = e

\* main, lines 211-220: load the source
Main_Load ==
    /\ prog = "orbax_to_rtneural" /\ pc = "main"
    /\ IF load_ok
       THEN /\ source' = input_tree
            /\ pc' = "resolve"
            /\ err' = err
       ELSE /\ Fail("LoadError")
            /\ source' = source
    /\ UNCHANGED <<inputs, normalizer_data, model_data, policy_params, normalizer,
                   layer_dict, i, layers, rtneural, out_file>>

\* convert_to_rtneural, lines 131-147
Convert_Resolve ==
    /\ prog = "orbax_to_rtneural" /\ pc = "resolve"
    /\ LET r == ResolveSource(source)
       IN  IF r.ok
           THEN /\ normalizer_data' = r.normalizer_data
                /\ model_data' = r.model_data
                /\ policy_params' = PolicyParams(r.model_data)
                /\ pc' = "normalizer"
                /\ err' = err
           ELSE /\ Fail(r.err)
                /\ UNCHANGED <<normalizer_data, model_data, policy_params>>
    /\ UNCHANGED <<inputs, source, normalizer, layer_dict, i, layers, rtneural, out_file>>

\* convert_to_rtneural, lines 149-157
Convert_Normalizer ==
    /\ prog = "orbax_to_rtneural" /\ pc = "normalizer"
    /\ normalizer' = ExtractNormalizer(normalizer_data)
    /\ pc' = "navigate"
    /\ UNCHANGED <<inputs, err, source, normalizer_data, model_data, policy_params,
                   layer_dict, i, layers, rtneural, out_file>>

\* extract_layer_params, lines 54-64
Extract_Navigate ==
    /\ prog = "orbax_to_rtneural" /\ pc = "navigate"
    /\ IF NavigateRaises(policy_params)
       THEN /\ Fail("TypeError")
            /\ UNCHANGED <<layer_dict, i, layers>>
       ELSE /\ layer_dict' = NavigateParams(policy_params)
            /\ layers' = <<>>
            /\ i' = 0
            /\ pc' = "probe"
            /\ err' = err
    /\ UNCHANGED <<inputs, source, normalizer_data, model_data, policy_params,
                   normalizer, rtneural, out_file>>

\* extract_layer_params, lines 65-89: one turn of the discovery loop
Extract_Probe ==
    /\ prog = "orbax_to_rtneural" /\ pc = "probe"
    /\ IF KeyInRaises(layer_dict)
       THEN /\ Fail("TypeError")
            /\ UNCHANGED <<i, layers>>
       ELSE IF ProbeBreaks(layer_dict, i)
       THEN /\ pc' = "check"
            /\ UNCHANGED <<err, i, layers>>
       ELSE LET r == ExtractLayer(layer_dict, i)
            IN  IF r.ok
                THEN /\ layers' = Append(layers, r.val)
                     /\ i' = i + 1
                     /\ UNCHANGED <<pc, err>>
                ELSE /\ Fail(r.err)
                     /\ UNCHANGED <<i, layers>>
    /\ UNCHANGED <<inputs, source, normalizer_data, model_data, policy_params,
                   normalizer, layer_dict, rtneural, out_file>>

\* convert_to_rtneural, lines 161-177
Convert_Header ==
    /\ prog = "orbax_to_rtneural" /\ pc = "check"
    /\ IF layers = <<>>
       THEN /\ Fail("ValueError")
            /\ UNCHANGED <<rtneural, i>>
       ELSE /\ rtneural' = Header(normalizer)
            /\ i' = 0
            /\ pc' = "emit"
            /\ err' = err
    /\ UNCHANGED <<inputs, source, normalizer_data, model_data, policy_params,
                   normalizer, layer_dict, layers, out_file>>

\* convert_to_rtneural, lines 179-200: one turn of the emission loop, or return
Convert_Emit ==
    /\ prog = "orbax_to_rtneural" /\ pc = "emit"
    /\ IF i = Len(layers)
       THEN /\ pc' = "save"
            /\ UNCHANGED <<err, i, rtneural>>
       ELSE IF InFeaturesRaises(layers[i + 1]) \/ OutFeaturesRaises(layers[i + 1])
       THEN /\ Fail("TypeError")
            /\ UNCHANGED <<i, rtneural>>
       ELSE /\ rtneural' = [rtneural EXCEPT
                               !.layers = Append(@, LayerRecord(layers, i, activation))]
            /\ i' = i + 1
            /\ UNCHANGED <<pc, err>>
    /\ UNCHANGED <<inputs, source, normalizer_data, model_data, policy_params,
                   normalizer, layer_dict, layers, out_file>>

\* main, line 227: open(output_path, 'w') creates or truncates the file
Main_Open ==
    /\ prog = "orbax_to_rtneural" /\ pc = "save"
    /\ out_file' = "empty"
    /\ pc' = "dump"
    /\ UNCHANGED <<inputs, err, source, normalizer_data, model_data, policy_params,
                   normalizer, layer_dict, i, layers, rtneural>>

\* main, line 228: json.dump streams the document into the open file
Main_Dump ==
    /\ prog = "orbax_to_rtneural" /\ pc = "dump"
    /\ IF /\ Serializable(rtneural.normalizer)
          /\ \A n \in 1..Len(rtneural.layers) :
                /\ Serializable(rtneural.layers[n].weights[1])
                /\ Serializable(rtneural.layers[n].weights[2])
       THEN /\ out_file' = "complete"
            /\ pc' = "report"
            /\ err' = err
       ELSE /\ out_file' = "partial"
            /\ Fail("TypeError")
    /\ UNCHANGED <<inputs, source, normalizer_data, model_data, policy_params,
                   normalizer, layer_dict, i, layers, rtneural>>

\* main, lines 230-239
Main_Report ==
    /\ prog = "orbax_to_rtneural" /\ pc = "report"
    /\ IF MainReportRaises(rtneural)
       THEN Fail("TypeError")
       ELSE /\ pc' = "done"
            /\ err' = err
    /\ UNCHANGED <<inputs, source, normalizer_data, model_data, policy_params,
                   normalizer, layer_dict, i, layers, rtneural, out_file>>

\* convert_policy, lines 11-12: open and parse the input file
Policy_Read ==
    /\ prog = "convert_policy" /\ pc = "main"
    /\ IF load_ok /\ path_kind = "file"
       THEN /\ source' = input_tree
            /\ pc' = "format"
            /\ err' = err
       ELSE /\ Fail("LoadError")
            /\ source' = source
    /\ UNCHANGED <<inputs, normalizer_data, model_data, policy_params, normalizer,
                   layer_dict, i, layers, rtneural, out_file>>

\* convert_policy, lines 14-26: a document already converted is replaced by its
\* backup, and without a backup the function returns
Policy_Format ==
    /\ prog = "convert_policy" /\ pc = "format"
    /\ IF KeyInRaises(source)
       THEN /\ Fail("TypeError")
            /\ source' = source
       ELSE IF AlreadyRTNeural(source)
       THEN IF backup = None
            THEN /\ pc' = "done"
                 /\ UNCHANGED <<err, source>>
            ELSE /\ source' = backup
                 /\ pc' = "params"
                 /\ err' = err
       ELSE /\ pc' = "params"
            /\ UNCHANGED <<err, source>>
    /\ UNCHANGED <<inputs, normalizer_data, model_data, policy_params, normalizer,
                   layer_dict, i, layers, rtneural, out_file>>

\* convert_policy, lines 28-59
Policy_Params ==
    /\ prog = "convert_policy" /\ pc = "params"
    /\ LET r == PolicyNetParams(source)
       IN  IF r.ok
           THEN /\ policy_params' = r.val
                /\ normalizer' = PolicyNormalizer(source)
                /\ rtneural' = PolicyHeader(PolicyNormalizer(source))
                /\ i' = 0
                /\ pc' = "emit"
                /\ err' = err
           ELSE /\ Fail(r.err)
                /\ UNCHANGED <<policy_params, normalizer, rtneural, i>>
    /\ UNCHANGED <<inputs, source, normalizer_data, model_data, layer_dict, layers,
                   out_file>>

\* convert_policy, lines 61-78: one turn of the loop over layer_names
Policy_Emit ==
    /\ prog = "convert_policy" /\ pc = "emit"
    /\ IF i = Len(layer_names)
       THEN /\ pc' = "save"
            /\ UNCHANGED <<err, i, rtneural>>
       ELSE LET r == PolicyLayerRecord(policy_params, i)
            IN  IF r.ok
                THEN /\ rtneural' = [rtneural EXCEPT !.layers = Append(@, r.val)]
                     /\ i' = i + 1
                     /\ UNCHANGED <<pc, err>>
                ELSE /\ Fail(r.err)
                     /\ UNCHANGED <<i, rtneural>>
    /\ UNCHANGED <<inputs, source, normalizer_data, model_data, policy_params,
                   normalizer, layer_dict, layers, out_file>>

\* convert_policy, line 81
Policy_Open ==
    /\ prog = "convert_policy" /\ pc = "save"
    /\ out_file' = "empty"
    /\ pc' = "dump"
    /\ UNCHANGED <<inputs, err, source, normalizer_data, model_data, policy_params,
                   normalizer, layer_dict, i, layers, rtneural>>

\* convert_policy, line 82
Policy_Dump ==
    /\ prog = "convert_policy" /\ pc = "dump"
    /\ IF /\ Serializable(rtneural.normalizer)
          /\ \A n \in 1..Len(rtneural.layers) :
                /\ Serializable(rtneural.layers[n].weights[1])
                /\ Serializable(rtneural.layers[n].weights[2])
       THEN /\ out_file' = "complete"
            /\ pc' = "report"
            /\ err' = err
       ELSE /\ out_file' = "partial"
            /\ Fail("TypeError")
    /\ UNCHANGED <<inputs, source, normalizer_data, model_data, policy_params,
                   normalizer, layer_dict, i, layers, rtneural>>

\* convert_policy, lines 84-90
Policy_Report ==
    /\ prog = "convert_policy" /\ pc = "report"
    /\ IF ReportRaises(normalizer)
       THEN Fail("AttributeError")
       ELSE /\ pc' = "done"
            /\ err' = err
    /\ UNCHANGED <<inputs, source, normalizer_data, model_data, policy_params,
                   normalizer, layer_dict, i, layers, rtneural, out_file>>

(***************************************************************************)
(* Inputs                                                                  *)
(***************************************************************************)
MaxLayers == 3
MaxStack == 2
MaxDim == 2
MaxListLen == 3

Row(c, v) == List([k \in 1..c |-> Num(v)])
Kernel(r, c, v) == List([k \in 1..r |-> Row(c, v)])
Vec(n, v) == List([k \in 1..n |-> Num(v)])
Layer(r, c, b, v) == Dict([kernel |-> Kernel(r, c, v), bias |-> Vec(b, v)])

\* the index a layer key stands for, and a number that tells the three naming
\* schemes' entries apart
KeyIndex(k) == CHOOSE n \in 0..6 : k \in {hidden_(n), str(n), Dense_(n)}
KeyValue(k) == IF k = hidden_(KeyIndex(k)) THEN 1 ELSE IF k = str(KeyIndex(k)) THEN 2 ELSE 3
AllKeys == UNION {{hidden_(n), str(n), Dense_(n)} : n \in 0..(MaxLayers - 1)}

\* every set of layer keys up to index MaxLayers - 1, one-by-one layers
NamingTrees == {Dict([k \in K |-> Layer(1, 1, 1, KeyValue(k))]) : K \in SUBSET AllKeys}

\* stacks of 0..MaxStack hidden_ layers of every shape: a kernel of r >= 1 rows of
\* width c with a bias of length c, or an empty kernel with a bias of length b
Shapes == {s \in (0..MaxDim) \X (0..MaxDim) \X (0..MaxDim) :
              /\ s[1] >= 1 => s[3] = s[2]
              /\ s[1] = 0 => s[2] = 0}
Stack(f, n) == Dict([k \in {hidden_(j) : j \in 0..(n - 1)} |->
                        Layer(f[KeyIndex(k)][1], f[KeyIndex(k)][2], f[KeyIndex(k)][3], 1)])
ShapeTrees == UNION {{Stack(f, n) : f \in [0..(n - 1) -> Shapes]} : n \in 0..MaxStack}

\* layer entries that are not {kernel: 2-D list, bias: 1-D list}
OddEntries ==
    {Layer(1, 1, 1, 1),
     Dict([kernel |-> Kernel(1, 1, 1)]),
     Dict([bias |-> Vec(1, 1)]),
     Dict(EmptyMap),
     Dict([kernel |-> Num(3), bias |-> Vec(1, 1)]),
     Dict([kernel |-> Vec(2, 1), bias |-> Vec(2, 1)]),
     Dict([kernel |-> List(<<>>), bias |-> Num(1)])}
OddTrees ==
    {Dict([hidden_0 |-> e]) : e \in OddEntries}
    \cup {Dict([hidden_0 |-> e[1], hidden_1 |-> e[2]]) : e \in OddEntries \X OddEntries}

\* restored checkpoints: array objects for kernels, biases and statistics
TensorKernels ==
    {Kernel(2, 1, 1), NdArray(Kernel(2, 1, 1).items), NdArray(<<>>),
     List(<<NdArray(<<Num(1)>>), NdArray(<<Num(1)>>)>>)}
TensorVecs == {Vec(1, 1), NdArray(<<Num(1)>>), List(<<NdArray(<<>>)>>), Num(1)}
TensorTrees ==
    {List(<<Dict([mean |-> m, std |-> Vec(1, 1), count |-> Num(7)]),
            Dict([policy |-> Dict([params |-> Dict([hidden_0 |->
                     Dict([kernel |-> k, bias |-> b])])]),
                  value |-> Num(0)])>>) :
        m \in TensorVecs, k \in TensorKernels, b \in TensorVecs \ {Num(1)}}

\* the shapes of a checkpoint: scalar, list of 0..MaxListLen elements, mapping;
\* normalizer data of every kind; policy key or not; 0..2 params wrappers; a
\* different layer mapping at every level that is not the resolved one
NormalizerData ==
    {Dict(EmptyMap), Dict([mean |-> Vec(1, 1)]), Dict([std |-> Vec(1, 2)]),
     Dict([mean |-> Vec(1, 1), std |-> Vec(1, 2)]),
     Dict([mean |-> Vec(1, 1), std |-> Vec(1, 2), count |-> Num(7)]),
     Dict([count |-> Num(7)]), Num(0), List(<<>>), Dict([mean |-> Num(5)])}
LayersA == [hidden_0 |-> Layer(1, 1, 1, 1)]
LayersB == [hidden_0 |-> Layer(2, 1, 1, 2), hidden_1 |-> Layer(1, 1, 1, 2)]
LayersC == [Dense_0 |-> Layer(1, 2, 2, 3)]
Wrapped(depth, decoy) ==
    IF depth = 0 THEN Dict(LayersA)
    ELSE IF depth = 1 THEN Dict(("params" :> Dict(LayersA)) @@ decoy)
    ELSE Dict(("params" :> Dict(("params" :> Dict(LayersA)) @@ decoy)) @@ decoy)
ParamTrees == {Wrapped(d, decoy) : d \in 0..2, decoy \in {EmptyMap, LayersB}}
                 \cup {Num(4), Dict([params |-> Num(4)]), List(<<>>),
                       Dict([params |-> Dict([params |-> Num(4)])])}
ModelData ==
    ParamTrees
    \cup {Dict(("policy" :> t) @@ decoy) : t \in ParamTrees, decoy \in {EmptyMap, LayersC}}
StructTrees ==
    {Num(3), None}
    \cup UNION {{List([k \in 1..n |->
                          IF k = 1 THEN nd ELSE IF k = 2 THEN md ELSE Num(9)]) :
                    nd \in NormalizerData, md \in ModelData} : n \in 0..MaxListLen}
    \cup {Dict(("normalizer" :> nd) @@ md.map) :
             nd \in NormalizerData, md \in {m \in ModelData : IsDict(m)}}
    \cup {md \in ModelData : IsDict(md)}

\* flat exports: policy.params.params with hidden_0..hidden_4, other keys beside
\* them, a normalizer or none, and documents that look converted already
FlatKernels == {Kernel(1, 1, 1), Kernel(2, 1, 1), List(<<>>), Vec(2, 1)}
FlatLayers(f) == [k \in {hidden_(n) : n \in 0..4} |->
                     Dict([kernel |-> f[KeyIndex(k)], bias |-> Vec(1, 1)])]
FlatExport(ld, extra) == Dict(("policy" :> Dict([params |-> Dict([params |-> Dict(ld)])])) @@ extra)
FlatNormalizers ==
    {EmptyMap} \cup {("normalizer" :> nd) : nd \in NormalizerData}
FlatExtraLayers ==
    {EmptyMap, ("5" :> Layer(1, 1, 1, 2)), ("Dense_5" :> Layer(1, 1, 1, 3)),
     ("hidden_5" :> Layer(1, 1, 1, 1)), ("Dense_0" :> Layer(1, 1, 1, 3)),
     ("0" :> Layer(1, 1, 1, 2)) @@ ("Dense_1" :> Layer(1, 1, 1, 3))}
FlatMarks ==
    {EmptyMap, ("layers" :> List(<<>>)), ("in_shape" :> List(<<>>)),
     ("layers" :> List(<<>>)) @@ ("in_shape" :> List(<<>>))}
FlatTrees ==
    {FlatExport(FlatLayers(f), nd) :
        f \in [0..4 -> FlatKernels],
        nd \in {EmptyMap, ("normalizer" :> Dict([mean |-> Vec(1, 1), std |-> Vec(1, 2)]))}}
    \cup {FlatExport(FlatLayers([n \in 0..4 |-> Kernel(1, 1, 1)]) @@ x, nd @@ m) :
             x \in FlatExtraLayers, nd \in FlatNormalizers, m \in FlatMarks}

Backups == {None, FlatExport(FlatLayers([n \in 0..4 |-> Kernel(2, 1, 1)]), EmptyMap)}

InputTrees == NamingTrees \cup ShapeTrees \cup OddTrees \cup TensorTrees
                 \cup StructTrees \cup FlatTrees

RECURSIVE HasArray(_)
HasArray(v) ==
    CASE v.type = "ndarray" -> TRUE
      [] v.type = "list" -> \E n \in 1..Len(v.items) : HasArray(v.items[n])
      [] v.type = "dict" -> \E k \in DOMAIN v.map : HasArray(v.map[k])
      [] OTHER -> FALSE

Activations == {"elu", "tanh"}

Init ==
    /\ prog \in {"orbax_to_rtneural", "convert_policy"}
    /\ input_tree \in InputTrees
    /\ path_kind \in IF HasArray(input_tree) THEN {"dir"}
                     ELSE IF input_tree = Dict(LayersA) THEN {"dir", "file"}
                     ELSE {"file"}
    /\ load_ok \in IF input_tree = Dict(LayersA) THEN BOOLEAN ELSE {TRUE}
    /\ backup \in IF prog = "convert_policy" /\ AlreadyRTNeural(input_tree)
                  THEN Backups ELSE {None}
    /\ activation \in IF prog = "orbax_to_rtneural" THEN Activations
                      ELSE {default_activation}
    /\ pc = "main"
    /\ err = ""
    /\ source = None
    /\ normalizer_data = None
    /\ model_data = None
    /\ policy_params = None
    /\ normalizer = None
    /\ layer_dict = None
    /\ i = 0
    /\ layers = <<>>
    /\ rtneural = None
    /\ out_file \in IF input_tree \in TensorTrees \cup OddTrees
                    THEN {"absent", "old"} ELSE {"absent"}

Next ==
    \/ Main_Load
    \/ Convert_Resolve
    \/ Convert_Normalizer
    \/ Extract_Navigate
    \/ Extract_Probe
    \/ Convert_Header
    \/ Convert_Emit
    \/ Main_Open
    \/ Main_Dump
    \/ Main_Report
    \/ Policy_Read
    \/ Policy_Format
    \/ Policy_Params
    \/ Policy_Emit
    \/ Policy_Open
    \/ Policy_Dump
    \/ Policy_Report

Spec == Init /\ [][Next]_vars

(***************************************************************************)
(* Vocabulary of the properties                                            *)
(***************************************************************************)
Orbax == prog = "orbax_to_rtneural"

\* convert_to_rtneural has returned its document
Returned ==
    /\ Orbax
    /\ \/ pc \in {"save", "dump", "report", "done"}
       \/ pc = "failed" /\ out_file \in {"empty", "partial", "complete"}

\* convert_to_rtneural has raised
ConvertFailed ==
    /\ Orbax /\ pc = "failed" /\ source # None
    /\ out_file \in {"absent", "old"}

\* the layer mapping has been resolved
Navigated == Orbax /\ layer_dict # None

\* the first index none of whose three keys is in the mapping
NoKeyAt(ld, n) ==
    ~IsDict(ld) \/ {HiddenNames[n + 1], NumericNames[n + 1], DenseNames[n + 1]} \cap DOMAIN ld.map = {}
LayerCount(ld) == CHOOSE n \in 0..6 : NoKeyAt(ld, n) /\ \A m \in 0..(n - 1) : ~NoKeyAt(ld, m)

\* the entry the precedence hidden_, number, Dense_ designates for index n
FirstPresent(ld, n) ==
    IF HiddenNames[n + 1] \in DOMAIN ld.map THEN ld.map[HiddenNames[n + 1]]
    ELSE IF NumericNames[n + 1] \in DOMAIN ld.map THEN ld.map[NumericNames[n + 1]]
    ELSE ld.map[DenseNames[n + 1]]

Plain(v) == IF v.type = "ndarray" THEN [type |-> "list", items |-> v.items] ELSE v

\* a layer entry the conversion can take the shape of
Sized(v) == v.type \in {"list", "ndarray"}
WellFormed(e) ==
    /\ IsDict(e) /\ {"kernel", "bias"} \subseteq DOMAIN e.map
    /\ Sized(e.map["kernel"])
    /\ IF Len(e.map["kernel"].items) > 0
       THEN e.map["kernel"].items[1].type \in {"list", "ndarray", "dict"}
       ELSE e.map["bias"].type \in {"list", "ndarray", "dict"}
AllWellFormed(ld) == \A n \in 0..(LayerCount(ld) - 1) : WellFormed(FirstPresent(ld, n))

\* rows of a kernel value and its output width as the shape rule gives it
Rows(e) == Len(e.map["kernel"].items)
Width(e) == IF Rows(e) = 0 THEN Len(e.map["bias"].items)
            ELSE Len(e.map["kernel"].items[1].items)

(***************************************************************************)
(* C1                                                                      *)
(***************************************************************************)
\* C1: whenever convert_to_rtneural has returned, with N >= 1 discovered layers
\* and configured activation a, the record at index N-1 has activation "" and
\* every record at an index below N-1 has activation a.
C1_LastLayerActivation ==
    Returned =>
        LET N == LayerCount(layer_dict)
        IN  /\ N >= 1
            /\ Len(rtneural.layers) = N
            /\ rtneural.layers[N].activation = ""
            /\ \A n \in 1..(N - 1) : rtneural.layers[n].activation = activation

C1_Witness ==
    /\ Returned /\ pc = "done"
    /\ Len(rtneural.layers) = 3
    /\ activation = "tanh"
    /\ rtneural.layers[2].activation = "tanh"

(***************************************************************************)
(* C2                                                                      *)
(***************************************************************************)
\* C2: for every index reached by the discovery loop, the layer taken is the one
\* stored under the first key present in the order hidden_{i}, {i}, Dense_{i},
\* index by index.
C2_NamingPrecedence ==
    Navigated =>
        \A n \in 0..(Len(layers) - 1) :
            /\ layers[n + 1].kernel = Plain(FirstPresent(layer_dict, n).map["kernel"])
            /\ layers[n + 1].bias = Plain(FirstPresent(layer_dict, n).map["bias"])

C2_Witness ==
    /\ Navigated /\ Len(layers) = 2
    /\ {"hidden_0", "Dense_0", "0"} \subseteq DOMAIN layer_dict.map
    /\ DOMAIN layer_dict.map \cap {"hidden_1", "1", "Dense_1"} = {"1", "Dense_1"}
    /\ layers[1] # layers[2]
    /\ layers[2].kernel = layer_dict.map["1"].map["kernel"]
    /\ layer_dict.map["1"] # layer_dict.map["Dense_1"]

C3_WitnessEmpty ==
    /\ ConvertFailed /\ layer_dict # None /\ IsDict(layer_dict)
    /\ LayerCount(layer_dict) = 0 /\ "hidden_1" \in DOMAIN layer_dict.map

(***************************************************************************)
(* C4                                                                      *)
(***************************************************************************)
\* C4: every emitted record has shape [rows of the kernel, width of the first
\* kernel row], and [0, len(bias)] when the kernel is empty; so a stack of
\* widths w0..wN gives record i the shape [w_i, w_{i+1}].
C4_Shape ==
    Returned =>
        \A n \in 1..Len(rtneural.layers) :
            LET e == FirstPresent(layer_dict, n - 1)
            IN  rtneural.layers[n].shape = <<Rows(e), Width(e)>>

C4_Witness ==
    /\ Returned /\ Len(rtneural.layers) = 2
    /\ rtneural.layers[1].shape = <<0, 2>>
    /\ Len(layer_dict.map["hidden_0"].map["bias"].items) = 2
    /\ rtneural.layers[2].shape = <<2, 1>>

(***************************************************************************)
(* C5                                                                      *)
(***************************************************************************)
ResolutionOver == Orbax /\ source # None /\ pc # "resolve"
TreeShaped(src) == src.type \in {"list", "dict"}

LongList(src) == IsList(src) /\ Len(src.items) >= 2
NormalizerKeyOf(src) ==
    IF IsDict(src) /\ "normalizer" \in DOMAIN src.map THEN src.map["normalizer"]
    ELSE [type |-> "dict", map |-> <<>>]
DescendPolicy(md) ==
    IF IsDict(md) /\ "policy" \in DOMAIN md.map THEN md.map["policy"] ELSE md

\* C5 as stated: (1) a sequence of length >= 2 gives normalizer data = element 0
\* and model data = element 1; (2) otherwise the source itself is the model data
\* and normalizer data its normalizer key or empty; (3) policy params are the
\* policy key of the model data if it is a mapping with one, else the model data.
C5_Original ==
    ResolutionOver /\ TreeShaped(source) =>
        /\ normalizer_data = IF LongList(source) THEN source.items[1]
                             ELSE NormalizerKeyOf(source)
        /\ model_data = IF LongList(source) THEN source.items[2] ELSE source
        /\ policy_params = DescendPolicy(model_data)

\* C5 amended: (2) applies to a source that is a mapping; a sequence of length
\* < 2 and a source that is neither sequence nor mapping are rejected with an
\* error and nothing is resolved.
C5_Resolution ==
    ResolutionOver =>
        IF LongList(source)
        THEN /\ normalizer_data = source.items[1]
             /\ model_data = source.items[2]
             /\ policy_params = DescendPolicy(source.items[2])
        ELSE IF IsDict(source)
        THEN /\ normalizer_data = NormalizerKeyOf(source)
             /\ model_data = source
             /\ policy_params = DescendPolicy(source)
        ELSE /\ pc = "failed"
             /\ err = IF IsList(source) THEN "ValueError" ELSE "AttributeError"
             /\ normalizer_data = None /\ model_data = None /\ policy_params = None

C5_Witness ==
    /\ ResolutionOver /\ pc = "done"
    /\ IsList(source) /\ Len(source.items) = 3
    /\ normalizer_data = source.items[1] /\ normalizer_data # source.items[2]
    /\ "policy" \in DOMAIN model_data.map
    /\ "hidden_0" \notin DOMAIN policy_params.map
    /\ "Dense_0" \in DOMAIN model_data.map

(***************************************************************************)
(* C6                                                                      *)
(***************************************************************************)
NormalizerKeys(nd) == IF IsDict(nd) THEN DOMAIN nd.map \cap {"mean", "std"} ELSE {}
PartialNormalizer == NormalizerKeys(normalizer_data) # {"mean", "std"}

C6_WitnessPartial ==
    /\ Returned /\ pc = "done"
    /\ IsDict(normalizer_data) /\ DOMAIN normalizer_data.map = {"std"}
    /\ DOMAIN rtneural.normalizer.map = {"std"}

(***************************************************************************)
(* C7                                                                      *)
(***************************************************************************)
ShortList(src) == IsList(src) /\ Len(src.items) < 2

\* C7: a top-level sequence of length < 2 is rejected with an error before any
\* normalizer or layer extraction takes place, and no document is returned.
C7_ShortListRejected ==
    Orbax /\ ShortList(source) =>
        /\ pc \in {"resolve", "failed"}
        /\ pc = "failed" => err = "ValueError"
        /\ normalizer_data = None /\ normalizer = None
        /\ layer_dict = None /\ layers = <<>>
        /\ rtneural = None
        /\ out_file \in {"absent", "old"}

C7_Witness ==
    /\ Orbax /\ pc = "failed" /\ err = "ValueError"
    /\ IsList(source) /\ Len(source.items) = 1
    /\ IsDict(source.items[1]) /\ "mean" \in DOMAIN source.items[1].map

(***************************************************************************)
(* C8                                                                      *)
(***************************************************************************)
\* C8: in every run of either program, if a stage fails the output path is never
\* created, truncated or written: a failed run leaves the output file untouched,
\* unless it failed after the whole document was written.
C8_NoPartialOutput ==
    pc = "failed" => out_file \in {"absent", "old", "complete"}

(***************************************************************************)
(* C9                                                                      *)
(***************************************************************************)
\* C9: every document returned by convert_to_rtneural satisfies
\* layers[i].shape[1] == layers[i+1].shape[0] for all adjacent records.
C9_Chaining ==
    Returned =>
        \A n \in 1..(Len(rtneural.layers) - 1) :
            rtneural.layers[n].shape[2] = rtneural.layers[n + 1].shape[1]

(***************************************************************************)
(* C10                                                                     *)
(***************************************************************************)
\* the common domain of the two converters
CommonDomain(d) ==
    /\ IsDict(d)
    /\ DOMAIN d.map \cap {"layers", "in_shape"} = {}
    /\ "policy" \in DOMAIN d.map /\ IsDict(d.map["policy"])
    /\ "params" \in DOMAIN d.map["policy"].map
    /\ IsDict(d.map["policy"].map["params"])
    /\ "params" \in DOMAIN d.map["policy"].map["params"].map
    /\ LET ld == d.map["policy"].map["params"].map["params"]
       IN  /\ IsDict(ld)
           /\ \A n \in 0..4 :
                 /\ HiddenNames[n + 1] \in DOMAIN ld.map
                 /\ LET e == ld.map[HiddenNames[n + 1]]
                    IN  /\ IsDict(e) /\ {"kernel", "bias"} \subseteq DOMAIN e.map
                        /\ e.map["kernel"].type = "list"
                        /\ Len(e.map["kernel"].items) > 0
           /\ NoKeyAt(ld, 5)
    /\ "normalizer" \in DOMAIN d.map =>
          /\ IsDict(d.map["normalizer"])
          /\ DOMAIN d.map["normalizer"].map \subseteq {"mean", "std"}

\* C10: on a flat export of the common domain, convert_to_rtneural with the
\* default configuration returns the document convert_policy builds (and the one
\* raises exactly when the other does).
C10_ConvertersAgree ==
    /\ Orbax /\ source # None /\ CommonDomain(source) /\ activation = default_activation =>
          /\ Returned => /\ PolicyDocument(source).ok
                         /\ rtneural = PolicyDocument(source).val
          /\ ConvertFailed => ~PolicyDocument(source).ok
    /\ prog = "convert_policy" /\ source # None /\ CommonDomain(source) =>
          /\ pc \in {"save", "dump", "report", "done"} =>
                /\ PolicyDocument(source).ok
                /\ rtneural = PolicyDocument(source).val
          /\ pc = "failed" /\ out_file \in {"absent", "old"} => ~PolicyDocument(source).ok

C10_Witness ==
    /\ Orbax /\ pc = "done" /\ CommonDomain(source)
    /\ activation = default_activation
    /\ PolicyDocument(source).ok
    /\ rtneural = PolicyDocument(source).val
    /\ Len(rtneural.layers) = 5
    /\ DOMAIN rtneural.normalizer.map = {"mean", "std"}
    /\ "Dense_0" \in DOMAIN layer_dict.map
    /\ rtneural.layers[2].activation = "elu"

====
